---- MODULE Spec2Model ----
(***************************************************************************)
(* Model of src/BloomFilter.py: the BloomFilter (bit vector) and the       *)
(* CountingBloomFilter (byte counters) classes and the driver _main that   *)
(* feeds both instances with the same strings; and of                      *)
(* src/DiceProblems/faces_after_rolls.py: do_rolls on a dice.              *)
(*                                                                         *)
(* Items are concrete strings; their digests under the five entries of     *)
(* hash_functions were computed with hashlib and are kept as residues      *)
(* modulo DigestMod = lcm(1..10), which is exact for digest % size for     *)
(* every size that divides it.  filter_data is a function from 0-based     *)
(* indices to byte values; a bytearray element that would leave 0..255     *)
(* raises ValueError and leaves the element unchanged.                     *)
(***************************************************************************)
EXTENDS Integers, Sequences, FiniteSets, TLC

VARIABLES
    calls,      \* the add, query and delete calls made so far by a recording caller
    ctor,       \* the constructor call: expected_nr_items, max_fpr (percent), exception
    dice,       \* do_rolls: the dice after the rolls made so far
    dice0,      \* do_rolls: the dice passed in
    rolls,      \* do_rolls: the rolls made so far
    size,       \* self.size (both instances are built with the same arguments)
    nhash,      \* self.nhash
    bf,         \* bloom_filter.filter_data          (packed bits, one byte per 8 slots)
    cbf,        \* counting_bloom_filter.filter_data (one byte counter per slot)
    last,       \* the call that produced the current state and what it returned
    prevBf,     \* bloom_filter.filter_data before that call
    prevCbf,    \* counting_bloom_filter.filter_data before that call
    nAdd,       \* per item: number of single add calls made so far
    nDel,       \* per item: number of delete calls made so far
    loaded,     \* the bulk add loop that was run first, if any: item and number of add calls
    live,       \* items whose most recent add/delete call was an add
    clean,      \* every delete so far was applied to an item that was present
    raised,     \* some call so far raised ValueError
    in_filter,  \* _main: the list of strings fed to the filters
    idx,        \* _main: position in in_filter of the running loop (1-based)
    pc          \* "ready" for a free caller; otherwise the position in _main

vars == <<calls, ctor, dice, dice0, rolls, size, nhash, bf, cbf, last, prevBf, prevCbf, nAdd, nDel, loaded,
          live, clean, raised, in_filter, idx, pc>>

-----------------------------------------------------------------------------
(* Bounds of the model *)

NumItems == 3      \* how many of the strings of ItemText are used
MaxAdds  == 3       \* single add calls of a free caller, over all items
MaxDels  == 4       \* delete calls of a free caller, over all items
BulkLen  == 255     \* length of the list of equal strings of a bulk add loop
MaxList  == 3       \* length of the short in_filter lists of _main

Items == 1..NumItems

-----------------------------------------------------------------------------
(* hashlib digests of the strings used as items *)

ItemText == <<"t", "ef", "y", "ap", "al">>

DigestMod == 2520

\* DigestTable[item][seed + 1] = int(hash_functions[seed](text).hexdigest(), 16) % DigestMod
DigestTable ==
    << <<240, 493, 1350, 2139, 319>>,
       <<1531, 1321, 1483, 1053, 737>>,
       <<1610, 138, 109, 1478, 34>>,
       <<367, 1124, 476, 3, 2423>>,
       <<1206, 2473, 1941, 1130, 2093>> >>

hash_functions == <<"sha256", "sha1", "md5", "sha384", "sha512">>

Digest(item, seed) == DigestTable[item][seed + 1]

\* a faulty _hash salted with the number of add calls the instance has seen
hashSalted(item, seed) ==
    (Digest(item, seed) + nAdd[1] + nAdd[2] + nAdd[3]) % size

\* a faulty _hash whose modulus is one too large
hashWide(item, seed) == Digest(item, seed) % (size + 1)

\* BloomFilter._hash
hash(item, seed) == Digest(item, seed) % size

Seeds == 0..(nhash - 1)

-----------------------------------------------------------------------------
(* BloomFilter.__init__ / CountingBloomFilter.__init__ *)

\* log(2) and log(2) ** 2 in millionths
Ln2Micro   == 693147
Ln2SqMicro == 480453
Million    == 1000000

\* -log(max_fpr) in millionths, max_fpr given in percent (max_fpr > 0)
NegLogMicro(pct) ==
    CASE pct = 1 -> 4605170
      [] pct = 30 -> 1203973
      [] pct = 50 -> 693147
      [] pct = 70 -> 356675
      [] pct = 90 -> 105361
      [] pct = 99 -> 10050
      [] pct = 100 -> 0
      [] pct = 200 -> -693147

CeilDiv(a, b) == (a + b - 1) \div b

Max2(a, b) == IF a >= b THEN a ELSE b
Min2(a, b) == IF a <= b THEN a ELSE b

\* line 27
SizeFor(expected_nr_items, pct) ==
    CeilDiv(expected_nr_items * NegLogMicro(pct), Ln2SqMicro)

\* line 28 (expected_nr_items # 0; CeilDiv needs a positive divisor)
OptimalHashes(expected_nr_items, sz) ==
    IF expected_nr_items > 0
    THEN CeilDiv(sz * Ln2Micro, expected_nr_items * Million)
    ELSE CeilDiv(-(sz * Ln2Micro), -(expected_nr_items * Million))

\* a faulty line 29 that does not cap the optimal number at the available hashes
NHashForUncapped(expected_nr_items, sz) ==
    Max2(1, OptimalHashes(expected_nr_items, sz))

\* line 29
NHashFor(expected_nr_items, sz) ==
    Max2(1, Min2(OptimalHashes(expected_nr_items, sz), Len(hash_functions)))

\* lines 30-32
NewBitData(sz) == [b \in 0..(((sz + 7) \div 8) - 1) |-> 0]

\* a faulty line 71 that starts every counter at 1
NewCounterDataOnes(sz) == [s \in 0..(sz - 1) |-> 1]

\* line 71
NewCounterData(sz) == [s \in 0..(sz - 1) |-> 0]

\* the constructor arguments (expected_nr_items, max_fpr in percent) tried
CtorArgs == { <<1, 50>>, <<2, 50>>, <<2, 70>> }

\* lines 24-32 and 69-71 on any arguments: log raises ValueError (math domain
\* error) for max_fpr <= 0, and self.size / expected_nr_items raises
\* ZeroDivisionError for expected_nr_items = 0
Construct(expected_nr_items, pct) ==
    IF pct <= 0 THEN [size |-> 0, nhash |-> 0, exc |-> "ValueError"]
    ELSE IF expected_nr_items = 0
    THEN [size |-> SizeFor(expected_nr_items, pct), nhash |-> 0,
          exc |-> "ZeroDivisionError"]
    ELSE [size |-> SizeFor(expected_nr_items, pct),
          nhash |-> NHashFor(expected_nr_items, SizeFor(expected_nr_items, pct)),
          exc |-> "None"]

ByteMax == 255

-----------------------------------------------------------------------------
(* src/DiceProblems/faces_after_rolls.py *)

faces == <<"U", "D", "L", "R", "F", "B">>

Faces == { faces[k] : k \in 1..Len(faces) }

LEFT_TRANSFORM == <<"U", "L", "D", "R">>
FRONT_TRANSFORM == <<"U", "F", "D", "B">>

\* transformation[::-1]
Reversed(t) == [k \in 1..Len(t) |-> t[Len(t) + 1 - k]]

Rolls == {"L", "R", "F", "B"}

\* a faulty table in which a roll to the right uses LEFT_TRANSFORM as it is
roll_to_transformations_unreversed(roll) ==
    CASE roll = "L" -> LEFT_TRANSFORM
      [] roll = "R" -> LEFT_TRANSFORM
      [] roll = "F" -> FRONT_TRANSFORM
      [] roll = "B" -> Reversed(FRONT_TRANSFORM)

roll_to_transformations(roll) ==
    CASE roll = "L" -> LEFT_TRANSFORM
      [] roll = "R" -> Reversed(LEFT_TRANSFORM)
      [] roll = "F" -> FRONT_TRANSFORM
      [] roll = "B" -> Reversed(FRONT_TRANSFORM)

\* transformation.find(face): 0-based position, or -1
Find(t, face) ==
    IF \E k \in 1..Len(t) : t[k] = face
    THEN (CHOOSE k \in 1..Len(t) : t[k] = face) - 1
    ELSE -1

\* lines 27-34: the face a value on current_face moves to
MovedTo(transformation, current_face) ==
    IF Find(transformation, current_face) # -1
    THEN transformation[((Find(transformation, current_face) + 1) % 4) + 1]
    ELSE current_face

\* lines 27-34: one iteration of the loop over rolls
DoRoll(d, roll) ==
    LET transformation == roll_to_transformations(roll) IN
    [f \in Faces |->
        d[CHOOSE current_face \in Faces : MovedTo(transformation, current_face) = f]]

\* lines 23-36
RECURSIVE do_rolls(_, _)
do_rolls(d, rs) ==
    IF rs = <<>> THEN d ELSE do_rolls(DoRoll(d, Head(rs)), Tail(rs))

\* the dice of the tests: every face shows its own name
TestDice == [f \in Faces |-> f]

\* the dice variables while no dice is rolled
DiceIdle ==
    /\ dice = TestDice
    /\ dice0 = TestDice
    /\ rolls = <<>>

-----------------------------------------------------------------------------
(* BloomFilter.add / BloomFilter.query *)

Pow2(k) == 2 ^ k

\* filter_data[byte_index] & mask, as 0 or 1
BitAt(data, index) == (data[index \div 8] \div Pow2(index % 8)) % 2

\* a faulty store that flips the bit (^=) instead of setting it
XorMask(data, index) ==
    IF BitAt(data, index) = 1
    THEN [data EXCEPT ![index \div 8] = @ - Pow2(index % 8)]
    ELSE [data EXCEPT ![index \div 8] = @ + Pow2(index % 8)]

\* a faulty store whose mask also covers the next bit of the byte
OrMaskWide(data, index) ==
    [data EXCEPT ![index \div 8] =
        @ + (IF BitAt(data, index) = 1 THEN 0 ELSE Pow2(index % 8))
          + (IF index % 8 = 7 \/ BitAt(data, index + 1) = 1 THEN 0
             ELSE Pow2((index % 8) + 1))]

\* filter_data[byte_index] |= mask
OrMask(data, index) ==
    IF BitAt(data, index) = 1 THEN data
    ELSE [data EXCEPT ![index \div 8] = @ + Pow2(index % 8)]

RECURSIVE BfAddLoop(_, _, _)
BfAddLoop(data, item, i) ==
    IF i >= nhash THEN data
    ELSE BfAddLoop(OrMask(data, hash(item, i)), item, i + 1)

\* a faulty add that also appends a byte to filter_data
BfAddGrowing(data, item) ==
    [b \in 0..(Cardinality(DOMAIN data)) |->
        IF b \in DOMAIN data THEN BfAddLoop(data, item, 0)[b] ELSE 0]

\* a faulty add that forgets the first hash function
BfAddFromSecond(data, item) == BfAddLoop(data, item, 1)

BfAdd(data, item) == BfAddLoop(data, item, 0)

RECURSIVE BfQueryLoop(_, _, _)
BfQueryLoop(data, item, i) ==
    IF i >= nhash THEN TRUE
    ELSE IF BitAt(data, hash(item, i)) = 0 THEN FALSE
    ELSE BfQueryLoop(data, item, i + 1)

\* a faulty query that tests the slot of the first hash function only
BfQueryFirstSeed(data, item) == BitAt(data, hash(item, 0)) # 0

BfQuery(data, item) == BfQueryLoop(data, item, 0)

-----------------------------------------------------------------------------
(* CountingBloomFilter.add / query / delete *)

\* a faulty add whose counters wrap around to 0 past ByteMax
RECURSIVE CbfAddLoopWrap(_, _, _)
CbfAddLoopWrap(data, item, i) ==
    IF i >= nhash THEN [data |-> data, exc |-> "None"]
    ELSE LET index == hash(item, i) IN
         CbfAddLoopWrap([data EXCEPT ![index] = (@ + 1) % (ByteMax + 1)], item, i + 1)

\* filter_data[index] += 1 : the store raises ValueError above 255
RECURSIVE CbfAddLoop(_, _, _)
CbfAddLoop(data, item, i) ==
    IF i >= nhash THEN [data |-> data, exc |-> "None"]
    ELSE LET index == hash(item, i) IN
         IF data[index] + 1 > ByteMax
         THEN [data |-> data, exc |-> "ValueError"]
         ELSE CbfAddLoop([data EXCEPT ![index] = @ + 1], item, i + 1)

\* a faulty add whose stores depend on what was added before: the counter of
\* every slot of the item is doubled and raised by the number of the item
CbfAddOrdered(data, item) ==
    [data |-> [s \in DOMAIN data |->
                  IF \E i \in Seeds : hash(item, i) = s
                  THEN 2 * data[s] + item ELSE data[s]],
     exc |-> "None"]

\* a faulty add that increments every slot of the item once, however many
\* hash functions give that slot
CbfAddDistinct(data, item) ==
    [data |-> [s \in DOMAIN data |->
                  IF \E i \in Seeds : hash(item, i) = s THEN data[s] + 1 ELSE data[s]],
     exc |-> "None"]

\* a faulty add that forgets the first hash function
CbfAddFromSecond(data, item) == CbfAddLoop(data, item, 1)

CbfAdd(data, item) == CbfAddLoop(data, item, 0)

RECURSIVE CbfQueryLoop(_, _, _)
CbfQueryLoop(data, item, i) ==
    IF i >= nhash THEN TRUE
    ELSE IF data[hash(item, i)] = 0 THEN FALSE
    ELSE CbfQueryLoop(data, item, i + 1)

CbfQuery(data, item) == CbfQueryLoop(data, item, 0)

\* a faulty first loop that also gives up on a counter of 1
RECURSIVE DeleteCheckStrict(_, _, _, _)
DeleteCheckStrict(data, item, i, indices) ==
    IF i >= nhash THEN [go |-> TRUE, indices |-> indices]
    ELSE LET index == hash(item, i) IN
         IF data[index] <= 1 THEN [go |-> FALSE, indices |-> indices]
         ELSE DeleteCheckStrict(data, item, i + 1, Append(indices, index))

\* first loop of delete: collect the indices, or return at the first counter <= 0
RECURSIVE DeleteCheck(_, _, _, _)
DeleteCheck(data, item, i, indices) ==
    IF i >= nhash THEN [go |-> TRUE, indices |-> indices]
    ELSE LET index == hash(item, i) IN
         IF data[index] <= 0 THEN [go |-> FALSE, indices |-> indices]
         ELSE DeleteCheck(data, item, i + 1, Append(indices, index))

\* a faulty commit loop that decrements the neighbour of each collected index
RECURSIVE DeleteCommitShifted(_, _, _)
DeleteCommitShifted(data, indices, k) ==
    IF k > Len(indices) THEN [data |-> data, exc |-> "None"]
    ELSE LET index == (indices[k] + 1) % size IN
         IF data[index] - 1 < 0
         THEN [data |-> data, exc |-> "ValueError"]
         ELSE DeleteCommitShifted([data EXCEPT ![index] = @ - 1], indices, k + 1)

\* second loop of delete: filter_data[index] -= 1 : the store raises ValueError below 0
RECURSIVE DeleteCommit(_, _, _)
DeleteCommit(data, indices, k) ==
    IF k > Len(indices) THEN [data |-> data, exc |-> "None"]
    ELSE LET index == indices[k] IN
         IF data[index] - 1 < 0
         THEN [data |-> data, exc |-> "ValueError"]
         ELSE DeleteCommit([data EXCEPT ![index] = @ - 1], indices, k + 1)

\* a faulty delete without the first loop: it decrements seed after seed
CbfDeleteUnchecked(data, item) ==
    DeleteCommit(data, [k \in 1..nhash |-> hash(item, k - 1)], 1)

\* a faulty delete that decrements for the first hash function only
CbfDeleteFirstSeed(data, item) ==
    LET chk == DeleteCheck(data, item, 0, <<>>) IN
    IF chk.go THEN DeleteCommit(data, <<chk.indices[1]>>, 1)
    ELSE [data |-> data, exc |-> "None"]

CbfDelete(data, item) ==
    LET chk == DeleteCheck(data, item, 0, <<>>) IN
    IF chk.go THEN DeleteCommit(data, chk.indices, 1)
    ELSE [data |-> data, exc |-> "None"]

-----------------------------------------------------------------------------
(* Bookkeeping about the calls made so far (not program state) *)

RECURSIVE Total(_, _)
Total(count, n) == IF n = 0 THEN 0 ELSE count[n] + Total(count, n - 1)

AddCalls(x) == nAdd[x] + (IF loaded.item = x THEN loaded.calls ELSE 0)

\* "currently present": more add(x) than delete(x) calls so far
Present(x) == AddCalls(x) > nDel[x]

NoCall == [op |-> "new", item |-> 0, bfRet |-> "None", cbfRet |-> "None", exc |-> "None"]

\* a call on an instance whose size is not positive: digest % 0 raises
\* ZeroDivisionError in _hash; for a negative size filter_data is empty and
\* the first access raises IndexError
SizeError == IF size = 0 THEN "ZeroDivisionError" ELSE "IndexError"

CallFails(op, x) ==
    /\ last' = [op |-> op, item |-> x, bfRet |-> "None", cbfRet |-> "None",
                exc |-> SizeError]
    /\ prevBf' = bf
    /\ prevCbf' = cbf
    /\ nAdd' = IF op = "add" THEN [nAdd EXCEPT ![x] = @ + 1] ELSE nAdd
    /\ nDel' = IF op = "delete" THEN [nDel EXCEPT ![x] = @ + 1] ELSE nDel
    /\ UNCHANGED <<ctor, dice, dice0, rolls, size, nhash, bf, cbf, loaded, live,
                   clean, raised>>

\* bloom_filter.add(item); counting_bloom_filter.add(item)
DoAdd(x) ==
    IF size <= 0 THEN CallFails("add", x) ELSE
    LET r == CbfAdd(cbf, x) IN
    /\ bf' = BfAdd(bf, x)
    /\ cbf' = r.data
    /\ prevBf' = bf
    /\ prevCbf' = cbf
    /\ last' = [op |-> "add", item |-> x, bfRet |-> "None", cbfRet |-> "None", exc |-> r.exc]
    /\ nAdd' = [nAdd EXCEPT ![x] = @ + 1]
    /\ live' = live \cup {x}
    /\ raised' = (raised \/ r.exc = "ValueError")
    /\ UNCHANGED <<ctor, dice, dice0, rolls, size, nhash, nDel, loaded, clean>>

\* bloom_filter.query(item); counting_bloom_filter.query(item)
DoQuery(x) ==
    IF size <= 0 THEN CallFails("query", x) ELSE
    /\ last' = [op |-> "query", item |-> x, bfRet |-> BfQuery(bf, x),
                cbfRet |-> CbfQuery(cbf, x), exc |-> "None"]
    /\ prevBf' = bf
    /\ prevCbf' = cbf
    /\ UNCHANGED <<ctor, dice, dice0, rolls, size, nhash, bf, cbf, nAdd, nDel, loaded, live, clean, raised>>

\* counting_bloom_filter.delete(item)
DoDelete(x) ==
    IF size <= 0 THEN CallFails("delete", x) ELSE
    LET r == CbfDelete(cbf, x) IN
    /\ cbf' = r.data
    /\ prevBf' = bf
    /\ prevCbf' = cbf
    /\ last' = [op |-> "delete", item |-> x, bfRet |-> "None", cbfRet |-> "None", exc |-> r.exc]
    /\ nDel' = [nDel EXCEPT ![x] = @ + 1]
    /\ live' = live \ {x}
    /\ clean' = (clean /\ Present(x))
    /\ raised' = (raised \/ r.exc = "ValueError")
    /\ UNCHANGED <<ctor, dice, dice0, rolls, size, nhash, bf, nAdd, loaded>>

-----------------------------------------------------------------------------
(* A caller that uses the two instances freely *)

\* the state after BloomFilter(...) and CountingBloomFilter(...) on one of argSet
ConstructedFrom(argSet) ==
    /\ \E args \in argSet :
          /\ ctor = [expected_nr_items |-> args[1], max_fpr |-> args[2],
                     exc |-> Construct(args[1], args[2]).exc]
          /\ size = Construct(args[1], args[2]).size
          /\ nhash = Construct(args[1], args[2]).nhash
    /\ bf = NewBitData(size)
    /\ cbf = NewCounterData(size)
    /\ calls = <<>>
    /\ last = NoCall
    /\ prevBf = bf
    /\ prevCbf = cbf
    /\ nAdd = [x \in Items |-> 0]
    /\ nDel = [x \in Items |-> 0]
    /\ loaded = [item |-> 0, calls |-> 0]
    /\ live = {}
    /\ clean = TRUE
    /\ raised = FALSE

Constructed == ConstructedFrom(CtorArgs)

Init ==
    /\ Constructed
    /\ DiceIdle
    /\ in_filter = <<>>
    /\ idx = 0
    /\ pc = "ready"

Add(x) ==
    /\ pc = "ready"
    /\ Total(nAdd, NumItems) < MaxAdds
    /\ DoAdd(x)
    /\ UNCHANGED <<calls, in_filter, idx, pc>>

Query(x) ==
    /\ pc = "ready"
    /\ DoQuery(x)
    /\ UNCHANGED <<calls, in_filter, idx, pc>>

Delete(x) ==
    /\ pc = "ready"
    /\ Total(nDel, NumItems) < MaxDels
    /\ DoDelete(x)
    /\ UNCHANGED <<calls, in_filter, idx, pc>>

\* the strings a bulk add loop may repeat
BulkTexts == {"ef", "y"}

\* the add loop of _main (lines 136-138) run by the caller on a list of BulkLen
\* copies of one of BulkTexts, before any other call; one iteration per step, and the
\* loop ends at the first add that raises
BulkAdd(x) ==
    /\ ItemText[x] \in BulkTexts
    /\ \/ pc = "ready" /\ last = NoCall
       \/ pc = "bulk" /\ loaded.item = x
    /\ LET r == CbfAdd(cbf, x) IN
          /\ bf' = BfAdd(bf, x)
          /\ cbf' = r.data
          /\ prevBf' = bf
          /\ prevCbf' = cbf
          /\ last' = [op |-> "add", item |-> x, bfRet |-> "None", cbfRet |-> "None",
                      exc |-> r.exc]
          /\ loaded' = [item |-> x, calls |-> loaded.calls + 1]
          /\ raised' = (raised \/ r.exc = "ValueError")
          /\ pc' = IF r.exc = "ValueError" \/ loaded.calls + 1 >= BulkLen
                   THEN "ready" ELSE "bulk"
    /\ live' = live \cup {x}
    /\ UNCHANGED <<calls, ctor, dice, dice0, rolls, size, nhash, nAdd, nDel, clean,
                   in_filter, idx>>

Next ==
    \E x \in Items : Add(x) \/ Query(x) \/ Delete(x) \/ BulkAdd(x)

Spec == Init /\ [][Next]_vars

-----------------------------------------------------------------------------
(* the constructor called with any arguments, followed by a few calls *)

MaxCtorCalls == 2

\* expected_nr_items and max_fpr (in percent) passed to the constructor,
\* nonsensical ones included
WideItems == {-1, 0, 1, 2}
WidePcts == {-50, 0, 1, 50, 70, 99, 100, 200}
WideArgs == { <<n, pct>> : n \in WideItems, pct \in WidePcts }

\* expected_nr_items >= 1 and 0 < max_fpr < 1
ValidArgs(c) == c.expected_nr_items >= 1 /\ c.max_fpr > 0 /\ c.max_fpr < 100

\* pc is "ready" when the constructor returned an instance, else the exception
InitCtor ==
    /\ ConstructedFrom(WideArgs)
    /\ DiceIdle
    /\ in_filter = <<>>
    /\ idx = 0
    /\ pc = IF ctor.exc = "None" THEN "ready" ELSE ctor.exc

CtorCalls == Total(nAdd, NumItems) + Total(nDel, NumItems)

CtorAdd(x) ==
    /\ pc = "ready"
    /\ CtorCalls < MaxCtorCalls
    /\ DoAdd(x)
    /\ UNCHANGED <<calls, in_filter, idx, pc>>

CtorQuery(x) ==
    /\ pc = "ready"
    /\ DoQuery(x)
    /\ UNCHANGED <<calls, in_filter, idx, pc>>

CtorDelete(x) ==
    /\ pc = "ready"
    /\ CtorCalls < MaxCtorCalls
    /\ DoDelete(x)
    /\ UNCHANGED <<calls, in_filter, idx, pc>>

NextCtor ==
    \E x \in Items : CtorAdd(x) \/ CtorQuery(x) \/ CtorDelete(x)

SpecCtor == InitCtor /\ [][NextCtor]_vars

-----------------------------------------------------------------------------
(* _main: add every string of in_filter to both filters, check them, then   *)
(* delete them from the counting filter in insertion order                  *)

Sum(data) ==
    LET RECURSIVE SumUpTo(_)
        SumUpTo(k) == IF k < 0 THEN 0 ELSE data[k] + SumUpTo(k - 1)
    IN SumUpTo(size - 1)

ShortLists == UNION { [1..n -> Items] : n \in 1..MaxList }

BulkLists == { [k \in 1..BulkLen |-> x] : x \in Items }

InitMain ==
    /\ Constructed
    /\ DiceIdle
    /\ in_filter \in ShortLists \cup BulkLists
    /\ idx = 1
    /\ pc = "adding"

\* lines 136-138, one iteration
MainAdd ==
    /\ pc = "adding"
    /\ idx <= Len(in_filter)
    /\ DoAdd(in_filter[idx])
    /\ idx' = idx + 1
    /\ pc' = IF last'.exc = "ValueError" THEN "ValueError" ELSE "adding"
    /\ UNCHANGED <<calls, in_filter>>

\* lines 140-143: every added string is found by both filters
MainCheck ==
    /\ pc = "adding"
    /\ idx > Len(in_filter)
    /\ pc' = IF \A k \in 1..Len(in_filter) :
                   BfQuery(bf, in_filter[k]) /\ CbfQuery(cbf, in_filter[k])
             THEN "deleting" ELSE "AssertionError"
    /\ idx' = 1
    /\ UNCHANGED <<calls, ctor, dice, dice0, rolls, size, nhash, bf, cbf, last, prevBf,
                   prevCbf, nAdd, nDel, loaded,
                   live, clean, raised, in_filter>>

\* lines 172-185, one iteration
MainDelete ==
    /\ pc = "deleting"
    /\ idx <= Len(in_filter)
    /\ DoDelete(in_filter[idx])
    /\ idx' = idx + 1
    /\ pc' = IF last'.exc = "ValueError" THEN "ValueError"
             ELSE IF /\ Sum(cbf) - Sum(cbf') = nhash
                     /\ \A k \in (idx + 1)..Len(in_filter) : CbfQuery(cbf', in_filter[k])
                  THEN "deleting" ELSE "AssertionError"
    /\ UNCHANGED <<calls, in_filter>>

\* line 188
MainFinal ==
    /\ pc = "deleting"
    /\ idx > Len(in_filter)
    /\ pc' = IF \A s \in 0..(size - 1) : cbf[s] = 0 THEN "done" ELSE "AssertionError"
    /\ UNCHANGED <<calls, ctor, dice, dice0, rolls, size, nhash, bf, cbf, last, prevBf,
                   prevCbf, nAdd, nDel, loaded,
                   live, clean, raised, in_filter, idx>>

NextMain == MainAdd \/ MainCheck \/ MainDelete \/ MainFinal

SpecMain == InitMain /\ [][NextMain]_vars

-----------------------------------------------------------------------------
(* Vocabulary of the properties *)

Slot(x, i) == hash(x, i)

SlotsOf(x) == { Slot(x, i) : i \in Seeds }

\* how many hash functions send x to slot s
Hits(x, s) == Cardinality({ i \in Seeds : Slot(x, i) = s })

AllSet(data, x) == \A i \in Seeds : BitAt(data, Slot(x, i)) = 1

AllNonZero(data, x) == \A i \in Seeds : data[Slot(x, i)] # 0

AllPositive(data, x) == \A i \in Seeds : data[Slot(x, i)] > 0

AllZero(data) == \A s \in 0..(size - 1) : data[s] = 0

\* the counters with one decrement applied per hash function of x
FullyDecremented(data, x) == [s \in 0..(size - 1) |-> data[s] - Hits(x, s)]

-----------------------------------------------------------------------------
(* BloomFilter: no false negatives *)

\* C1: every item on which add was called is found by BloomFilter.query, and a
\* query that returned False was made for an item on which add was never called.
C1_NoFalseNegativesBf ==
    /\ \A x \in Items : AddCalls(x) > 0 => BfQuery(bf, x)
    /\ (last.op = "query" /\ last.bfRet = FALSE) => AddCalls(last.item) = 0

\* an added item was queried and found while another item is still reported absent
C1_Witness ==
    /\ last.op = "query"
    /\ AddCalls(last.item) > 0
    /\ last.bfRet = TRUE
    /\ \E y \in Items : AddCalls(y) = 0 /\ ~BfQuery(bf, y)

-----------------------------------------------------------------------------
(* CountingBloomFilter.delete *)

\* C2: a delete call leaves the counters either untouched or with exactly one
\* decrement applied per hash function, whether it returns or raises.
C2_DeleteAllOrNothing ==
    last.op = "delete" =>
        \/ cbf = prevCbf
        \/ cbf = FullyDecremented(prevCbf, last.item)

\* C3 as stated, on runs in which no call raised: after any add, query and
\* delete calls, every item whose most recent add/delete call was an add is found
\* by CountingBloomFilter.query.
C3_NoFalseNegativesAnyDelete ==
    ~raised => \A x \in live : CbfQuery(cbf, x)

\* C3 amended: when every delete so far was applied to an item that was present
\* and no call raised (no counter was pushed past 255), every item whose most
\* recent add/delete call was an add is found by CountingBloomFilter.query.
C3_NoFalseNegativesCbf ==
    (clean /\ ~raised) => \A x \in live : CbfQuery(cbf, x)

\* an item was deleted while an item sharing one of its slots stays added
C3_Witness ==
    /\ clean /\ ~raised
    /\ last.op = "delete"
    /\ cbf # prevCbf
    /\ \E x \in live : x # last.item /\ SlotsOf(x) \cap SlotsOf(last.item) # {}

\* C4: a delete called with every counter of the item strictly positive lowers
\* the sum of the counters by exactly nhash; a delete called with some counter of
\* the item at zero leaves the sum unchanged.
C4_DeleteSum ==
    last.op = "delete" =>
        /\ AllPositive(prevCbf, last.item) => Sum(prevCbf) - Sum(cbf) = nhash
        /\ ~AllPositive(prevCbf, last.item) => Sum(prevCbf) = Sum(cbf)

\* x and y are sent to the same slot by every hash function
SameSlots(x, y) == \A i \in Seeds : Slot(x, i) = Slot(y, i)

\* C5 as stated, on runs in which no call raised: delete(x) turns query(y) from
\* True to False for another present item y only if x and y have the same slot
\* for every hash function.
C5_InterferenceOnlyIfAllShared ==
    (~raised /\ last.op = "delete") =>
        \A y \in Items \ {last.item} :
            (Present(y) /\ CbfQuery(prevCbf, y) /\ ~SameSlots(last.item, y))
                => CbfQuery(cbf, y)

\* C5 amended: delete(x) turns query(y) from True to False for another present
\* item y only if x and y have at least one slot in common.
C5_InterferenceOnlyIfSlotShared ==
    last.op = "delete" =>
        \A y \in Items \ {last.item} :
            (Present(y) /\ CbfQuery(prevCbf, y) /\ SlotsOf(last.item) \cap SlotsOf(y) = {})
                => CbfQuery(cbf, y)

\* a delete that decremented counters while a present item with disjoint slots was found
C5_Witness ==
    /\ last.op = "delete"
    /\ cbf # prevCbf
    /\ \E y \in Items \ {last.item} :
          /\ Present(y)
          /\ CbfQuery(prevCbf, y)
          /\ SlotsOf(last.item) \cap SlotsOf(y) = {}

\* C6: when every delete so far was applied to a present item and no counter
\* was pushed past 255, every item that is still present is found by query.
C6_PresentItemsFound ==
    (clean /\ ~raised) => \A y \in Items : Present(y) => CbfQuery(cbf, y)

\* a present item was deleted and another present item has all its slots in
\* common with it
C6_Witness ==
    /\ clean /\ ~raised
    /\ last.op = "delete"
    /\ Sum(prevCbf) - Sum(cbf) = nhash
    /\ \E y \in Items \ {last.item} :
          Present(y) /\ SlotsOf(y) \subseteq SlotsOf(last.item)

-----------------------------------------------------------------------------
(* _main: add a list, then delete it in insertion order *)

Finished == pc \in {"done", "ValueError", "AssertionError"}

\* C7 as stated: for every list, each delete of the delete loop lowers the sum
\* of the counters by exactly nhash and the run ends with every counter at 0.
C7_AddAllDeleteAll ==
    /\ last.op = "delete" => Sum(prevCbf) - Sum(cbf) = nhash
    /\ Finished => AllZero(cbf)

\* C7 amended: for every list whose adds push no counter past 255 (no add
\* raises), each delete of the delete loop lowers the sum of the counters by
\* exactly nhash, no assertion of _main fails, and once every entry has been
\* deleted every counter is 0.
C7_AddAllDeleteAllNoOverflow ==
    ~raised =>
        /\ last.op = "delete" => Sum(prevCbf) - Sum(cbf) = nhash
        /\ pc # "AssertionError"
        /\ (pc \in {"deleting", "done"} /\ idx > Len(in_filter)) => AllZero(cbf)

\* a list with a repeated entry and a second string was added and deleted completely
C7_Witness ==
    /\ pc = "done"
    /\ ~raised
    /\ last.op = "delete"
    /\ \E j, k \in 1..Len(in_filter) : j < k /\ in_filter[j] = in_filter[k]
    /\ \E j, k \in 1..Len(in_filter) : in_filter[j] # in_filter[k]

-----------------------------------------------------------------------------
(* Deleting an item that was added once *)

\* the call just made is the first delete of an item that add was called on once
FirstDeleteOfSingleAdd ==
    /\ last.op = "delete"
    /\ AddCalls(last.item) = 1
    /\ nDel[last.item] = 1

\* every slot of x is also a slot of some other present item
CoveredByPresent(x) ==
    \A s \in SlotsOf(x) : \E y \in Items \ {x} : Present(y) /\ s \in SlotsOf(y)

\* the widest reading of "present": add was called on y and it has more add than
\* delete calls, or its most recent add/delete call was an add, or query finds it
InFilter(y) ==
    AddCalls(y) > 0 /\ (Present(y) \/ y \in live \/ CbfQuery(cbf, y))

\* every slot of x is also a slot of some other item that is in the filter
CoveredByOthers(x) ==
    \A s \in SlotsOf(x) : \E y \in Items \ {x} : InFilter(y) /\ s \in SlotsOf(y)

\* C8 as stated, on runs in which no call raised and with the widest reading of
\* "present": after the delete of an item that was added exactly once, query
\* finds it only if each of its slots is a slot of another present item.
C8_DeleteRemovesAnyRun ==
    (~raised /\ FirstDeleteOfSingleAdd) =>
        (CbfQuery(cbf, last.item) => CoveredByOthers(last.item))

\* C8 amended: when every delete so far was applied to a present item and no
\* counter was pushed past 255, after the delete of an item that was added
\* exactly once, query finds it only if each of its slots is a slot of another
\* present item.
C8_DeleteRemoves ==
    (clean /\ ~raised /\ FirstDeleteOfSingleAdd) =>
        (CbfQuery(cbf, last.item) => CoveredByPresent(last.item))

\* an item added once was deleted and is no longer found although another
\* present item shares one of its slots
C8_Witness ==
    /\ clean /\ ~raised
    /\ FirstDeleteOfSingleAdd
    /\ ~CbfQuery(cbf, last.item)
    /\ \E y \in Items \ {last.item} :
          Present(y) /\ SlotsOf(y) \cap SlotsOf(last.item) # {}

-----------------------------------------------------------------------------
(* Repeated add, and what query computes *)

\* C9: an add of an item never turns query of that item from True to False in
\* either filter; an add of an item that was added before leaves the bit array
\* of BloomFilter as it was, and adding twice to any reachable bit array gives
\* the same array as adding once.
C9_IdempotentAdd ==
    /\ last.op = "add" =>
          /\ BfQuery(prevBf, last.item) => BfQuery(bf, last.item)
          /\ CbfQuery(prevCbf, last.item) => CbfQuery(cbf, last.item)
          /\ AddCalls(last.item) >= 2 => (bf = prevBf /\ BfQuery(bf, last.item))
    /\ \A x \in Items : BfAdd(BfAdd(bf, x), x) = BfAdd(bf, x)

\* an item was added a second time without error
C9_Witness ==
    /\ last.op = "add"
    /\ last.exc = "None"
    /\ AddCalls(last.item) = 2
    /\ CbfQuery(prevCbf, last.item)
    /\ cbf # prevCbf

\* C10: in both filters query returns True exactly when the slot of every hash
\* function of the item is set (bit 1, counter nonzero).
C10_QueryIffAllSlotsSet ==
    /\ \A x \in Items :
          /\ BfQuery(bf, x) = AllSet(bf, x)
          /\ CbfQuery(cbf, x) = AllNonZero(cbf, x)
    /\ last.op = "query" =>
          /\ last.bfRet = AllSet(bf, last.item)
          /\ last.cbfRet = AllNonZero(cbf, last.item)

\* a query returned False in both filters for an item whose first slot is set
C10_Witness ==
    /\ last.op = "query"
    /\ last.bfRet = FALSE
    /\ last.cbfRet = FALSE
    /\ BitAt(bf, Slot(last.item, 0)) = 1
    /\ cbf[Slot(last.item, 0)] # 0

-----------------------------------------------------------------------------
(* runtime errors of add / query / delete *)

\* C11: on filters constructed with valid parameters no add, query or delete
\* call ends in an exception: every call returns normally, and a delete of an
\* item with a zero slot is a silent no-op.
C11_NoRuntimeError ==
    /\ last.exc = "None"
    /\ (last.op = "delete" /\ ~AllNonZero(prevCbf, last.item)) => cbf = prevCbf

-----------------------------------------------------------------------------
(* the constructor *)

\* C12: a constructor call with expected_nr_items <= 0 or max_fpr outside the
\* open interval (0, 1) fails with an invalid-argument error (ValueError), so
\* no instance with such parameters is ever ready for add, query or delete.
C12_InvalidArgsRejected ==
    ~ValidArgs(ctor) => (ctor.exc = "ValueError" /\ pc # "ready")

\* the available hash functions never change and nhash is fixed at construction
ClampedNHash ==
    Max2(1, Min2(OptimalHashes(ctor.expected_nr_items, size), Len(hash_functions)))

\* C13: every filter constructed with expected_nr_items >= 1 and max_fpr in
\* (0, 1) has size >= 1 and 1 <= nhash <= 5, nhash being the optimal number of
\* hashes clamped to [1, number of hash functions]; every seed below nhash then
\* selects an entry of hash_functions and every slot is inside the arrays, so
\* no call fails on a seed or an index.
C13_SizeAndNHashInRange ==
    ValidArgs(ctor) =>
        /\ ctor.exc = "None"
        /\ size >= 1
        /\ nhash >= 1
        /\ nhash <= 5
        /\ nhash = ClampedNHash
        /\ \A i \in Seeds : (i + 1) \in DOMAIN hash_functions
        /\ \A x \in Items : \A i \in Seeds : Slot(x, i) \in DOMAIN cbf
        /\ last.exc \notin {"IndexError", "ZeroDivisionError"}

\* valid arguments whose optimal number of hashes exceeds the five available
\* ones, and an add that went through all five seeds
C13_Witness ==
    /\ ValidArgs(ctor)
    /\ OptimalHashes(ctor.expected_nr_items, size) > Len(hash_functions)
    /\ nhash = 5
    /\ last.op = "add"
    /\ last.exc = "None"
    /\ Cardinality(SlotsOf(last.item)) >= 3

-----------------------------------------------------------------------------
(* do_rolls: a caller rolls a dice, one roll of the string per step *)

MaxRolls == 4

\* the values a face may show besides its own name
FaceValues == {"U", "D"}

\* the dice passed to do_rolls: the dice of the tests, and every dice showing
\* only FaceValues (a dict may hold a value more than once)
DiceConfigs == {TestDice} \cup [Faces -> FaceValues]

InitDice ==
    /\ ConstructedFrom({<<1, 50>>})
    /\ in_filter = <<>>
    /\ idx = 0
    /\ pc = "rolling"
    /\ dice0 \in DiceConfigs
    /\ dice = dice0
    /\ rolls = <<>>

\* lines 26-34: the next character of rolls is applied
Roll(roll) ==
    /\ pc = "rolling"
    /\ Len(rolls) < MaxRolls
    /\ rolls' = Append(rolls, roll)
    /\ dice' = DoRoll(dice, roll)
    /\ UNCHANGED <<calls, ctor, dice0, size, nhash, bf, cbf, last, prevBf, prevCbf, nAdd,
                   nDel, loaded, live, clean, raised, in_filter, idx, pc>>

NextDice == \E roll \in Rolls : Roll(roll)

SpecDice == InitDice /\ [][NextDice]_vars

Opposite(roll) ==
    CASE roll = "L" -> "R"
      [] roll = "R" -> "L"
      [] roll = "F" -> "B"
      [] roll = "B" -> "F"

\* a roll and its opposite, two equal rolls and two opposite ones, four equal rolls
Neutralizing ==
    { <<r, Opposite(r)>> : r \in Rolls }
        \cup { <<r, r, Opposite(r), Opposite(r)>> : r \in Rolls }
        \cup { <<r, r, r, r>> : r \in Rolls }

\* C15: do_rolls returns the dice it was given for a roll followed by its
\* opposite, for two equal rolls followed by two opposite rolls and for a roll
\* made four times, whatever the dice; and a string of several rolls is the
\* single-roll transformations applied one after the other, so such a
\* neutralizing run at the end of a string gives the dice of the string before it.
C15_NeutralizingRolls ==
    /\ rolls \in Neutralizing => dice = dice0
    /\ dice = do_rolls(dice0, rolls)
    /\ \A k \in 0..Len(rolls) :
          SubSeq(rolls, k + 1, Len(rolls)) \in Neutralizing =>
              /\ dice = do_rolls(dice0, SubSeq(rolls, 1, k))
              /\ do_rolls(dice0, rolls) = do_rolls(dice0, SubSeq(rolls, 1, k))
    /\ rolls # <<>> =>
          dice = DoRoll(do_rolls(dice0, SubSeq(rolls, 1, Len(rolls) - 1)),
                        rolls[Len(rolls)])

\* a dice other than the one of the tests is back in its first position after
\* two rolls to the left and two to the right
C15_Witness ==
    /\ rolls = <<"L", "L", "R", "R">>
    /\ dice0 # TestDice
    /\ dice = dice0
    /\ DoRoll(dice0, "L") # dice0

-----------------------------------------------------------------------------
(* CountingBloomFilter.delete: the first loop *)

HasZeroSlot(data, x) == \E i \in Seeds : data[Slot(x, i)] = 0

\* C16: a delete called while the counter of at least one hash function of the
\* item is 0 returns normally and leaves every counter as it was, the counters
\* of the hash functions checked before the zero one included.
C16_DeleteAbortsUnchanged ==
    /\ (last.op = "delete" /\ HasZeroSlot(prevCbf, last.item)) =>
          (last.exc = "None" /\ cbf = prevCbf)
    /\ \A x \in Items :
          HasZeroSlot(cbf, x) => CbfDelete(cbf, x) = [data |-> cbf, exc |-> "None"]

\* a delete met a nonzero counter for its first hash function and a zero one later
C16_Witness ==
    /\ last.op = "delete"
    /\ prevCbf[Slot(last.item, 0)] > 0
    /\ HasZeroSlot(prevCbf, last.item)
    /\ Sum(prevCbf) > 0
    /\ cbf = prevCbf
    /\ last.exc = "None"

-----------------------------------------------------------------------------
(* CountingBloomFilter.delete: the second loop *)

\* C17: a counter only decreases inside delete, and every decrement of the
\* second loop of delete is applied to a counter that is greater than 0 at that
\* moment (a decrement of a counter at 0 is the store that raises ValueError),
\* so no counter is taken below 0.
C17_DecrementOnlyPositive ==
    /\ \A s \in DOMAIN cbf : cbf[s] >= 0
    /\ last.op # "delete" => \A s \in DOMAIN cbf : cbf[s] >= prevCbf[s]
    /\ last.op = "delete" => last.exc # "ValueError"

\* C18: a delete of an item that was never added but whose slots are all
\* nonzero because of other items returns normally and has decremented the
\* counter of each slot of the item once per hash function.
C18_FalsePositiveDeleted ==
    (/\ last.op = "delete"
     /\ AddCalls(last.item) = 0
     /\ AllNonZero(prevCbf, last.item)) =>
        /\ last.exc = "None"
        /\ cbf = FullyDecremented(prevCbf, last.item)

-----------------------------------------------------------------------------
(* CountingBloomFilter: what the counters count *)

\* the number of (occurrence of a present item, hash function) pairs on slot s,
\* over the items 1..n
RECURSIVE PairsOn(_, _)
PairsOn(s, n) ==
    IF n = 0 THEN 0
    ELSE (AddCalls(n) - nDel[n]) * Hits(n, s) + PairsOn(s, n - 1)

\* C19: as long as every delete was applied to an item present at that moment
\* and no counter was pushed past 255, the counter of each slot is the number
\* of (occurrence of a present item, hash function) pairs on that slot; an add
\* raises the counter of a slot given by k hash functions of the item by k,
\* the sum of the counters by nhash, and leaves the other counters alone.
C19_CountersCountPairs ==
    /\ (clean /\ ~raised) => \A s \in DOMAIN cbf : cbf[s] = PairsOn(s, NumItems)
    /\ (last.op = "add" /\ last.exc = "None") =>
          /\ \A s \in DOMAIN cbf : cbf[s] = prevCbf[s] + Hits(last.item, s)
          /\ Sum(cbf) = Sum(prevCbf) + nhash

\* after an effective delete of a present item, an item with two hash
\* functions on one slot was added
C19_Witness ==
    /\ clean
    /\ ~raised
    /\ last.op = "add"
    /\ last.exc = "None"
    /\ \E s \in DOMAIN cbf : Hits(last.item, s) >= 2
    /\ Total(nDel, NumItems) >= 1
    /\ \E x \in Items : x # last.item /\ Present(x)

-----------------------------------------------------------------------------
(* CountingBloomFilter.add at a counter of 255 *)

\* some hash function of the add of x to data meets a counter that is at 255
\* when its turn comes
MeetsFull(data, x) == \E s \in DOMAIN data : data[s] + Hits(x, s) > ByteMax

\* C20 as claimed: an add that increments a counter holding 255 completes
\* without an error, the counter wrapping or saturating, and every counter
\* stays in 0..255.
C20_AddAtMaxCompletes ==
    /\ \A s \in DOMAIN cbf : cbf[s] \in 0..ByteMax
    /\ (last.op = "add" /\ MeetsFull(prevCbf, last.item)) => last.exc = "None"

\* C20 amended: every counter stays in 0..255, and an add raises ValueError
\* exactly when one of its increments meets a counter at 255; that counter
\* stays at 255, the increments made before it are kept and no counter is
\* lowered.
C20_AddAtMaxRaises ==
    /\ \A s \in DOMAIN cbf : cbf[s] \in 0..ByteMax
    /\ last.op = "add" =>
          /\ (last.exc = "ValueError") = MeetsFull(prevCbf, last.item)
          /\ last.exc \in {"None", "ValueError"}
          /\ \A s \in DOMAIN cbf :
                /\ cbf[s] >= prevCbf[s]
                /\ cbf[s] <= prevCbf[s] + Hits(last.item, s)
                /\ prevCbf[s] = ByteMax => cbf[s] = ByteMax
          /\ last.exc = "ValueError" => \E s \in DOMAIN cbf : cbf[s] = ByteMax

\* an add raised at a counter of 255 after it had incremented a counter
C20_Witness ==
    /\ last.op = "add"
    /\ last.exc = "ValueError"
    /\ cbf # prevCbf
    /\ \E s \in DOMAIN cbf : cbf[s] = ByteMax

-----------------------------------------------------------------------------
(* which calls change the storage *)

\* the bit positions of a bit array, spare bits of the last byte included
BitPositions(data) == { 8 * b + j : b \in DOMAIN data, j \in 0..7 }

\* C21: query leaves the bit array and the counters unchanged; a bit only goes
\* from 0 to 1 and a counter only increases during add; and BloomFilter.add
\* changes no bit other than those of the slots of the item, which it sets.
C21_StorageChangesOnlyInAdd ==
    /\ last.op = "query" => (bf = prevBf /\ cbf = prevCbf)
    /\ last.op # "add" =>
          /\ bf = prevBf
          /\ \A s \in DOMAIN cbf : cbf[s] <= prevCbf[s]
    /\ last.op = "add" =>
          \A k \in BitPositions(bf) :
              IF k \in SlotsOf(last.item)
              THEN BitAt(bf, k) = 1
              ELSE BitAt(bf, k) = BitAt(prevBf, k)

\* an add set a bit in a bit array of several bytes, next to a bit that was
\* set before and is not a slot of the added item
C21_Witness ==
    /\ last.op = "add"
    /\ last.exc = "None"
    /\ bf # prevBf
    /\ size > 8
    /\ \E k \in BitPositions(bf) : k \notin SlotsOf(last.item) /\ BitAt(bf, k) = 1

-----------------------------------------------------------------------------
(* size, nhash and the length of filter_data *)

\* C22: size, nhash and the lengths of both filter_data arrays are those set
\* by the constructor: no add, query or delete call changes any of them.
C22_SizeFixed ==
    /\ ctor.exc = "None" =>
          /\ size = Construct(ctor.expected_nr_items, ctor.max_fpr).size
          /\ nhash = Construct(ctor.expected_nr_items, ctor.max_fpr).nhash
    /\ DOMAIN bf = DOMAIN NewBitData(size)
    /\ DOMAIN cbf = DOMAIN NewCounterData(size)
    /\ DOMAIN prevBf = DOMAIN bf
    /\ DOMAIN prevCbf = DOMAIN cbf

\* an add and then a delete changed the storage of filters of more than 8 slots
C22_Witness ==
    /\ last.op = "delete"
    /\ cbf # prevCbf
    /\ bf # NewBitData(size)
    /\ size > 8
    /\ Total(nAdd, NumItems) >= 1

-----------------------------------------------------------------------------
(* slots and storage *)

\* C23: in filters built from valid arguments every slot used by add, query
\* or delete lies in 0..size-1 and addresses existing storage: in the bit
\* array slot s is bit s % 8 of byte s // 8, a byte below ceil(size / 8), and
\* different slots are different (byte, bit) pairs; in the counter array slot
\* s is element s of size elements. No call fails on an index.
C23_SlotsInsideStorage ==
    ValidArgs(ctor) =>
        /\ \A x \in Items : \A i \in Seeds :
              /\ Slot(x, i) \in 0..(size - 1)
              /\ (Slot(x, i) \div 8) \in DOMAIN bf
              /\ (Slot(x, i) \div 8) < CeilDiv(size, 8)
              /\ Slot(x, i) \in DOMAIN cbf
        /\ \A s, t \in 0..(size - 1) :
              (s \div 8 = t \div 8 /\ s % 8 = t % 8) => s = t
        /\ DOMAIN bf = 0..(CeilDiv(size, 8) - 1)
        /\ DOMAIN cbf = 0..(size - 1)
        /\ last.exc # "IndexError"
        /\ (last.op = "add" /\ last.exc = "None") =>
              \A s \in SlotsOf(last.item) :
                  /\ (bf[s \div 8] \div Pow2(s % 8)) % 2 = 1
                  /\ cbf[s] >= 1

\* an add used a slot in the second or third byte of a bit array whose last
\* byte is only partly used
C23_Witness ==
    /\ ValidArgs(ctor)
    /\ last.op = "add"
    /\ last.exc = "None"
    /\ size % 8 # 0
    /\ \E i \in Seeds : Slot(last.item, i) \div 8 >= 1
    /\ \E i \in Seeds : Slot(last.item, i) \div 8 = 0

-----------------------------------------------------------------------------
(* a new filter *)

\* no add call was made yet
NoAddYet == Total(nAdd, NumItems) = 0 /\ loaded.calls = 0

\* C24: a filter built from valid arguments starts with ceil(size / 8) zero
\* bytes (BloomFilter) and size zero counters (CountingBloomFilter); as long
\* as no add was called, query returns False for every item in both filters
\* and delete changes nothing and raises nothing.
C24_NewFilterIsEmpty ==
    (ValidArgs(ctor) /\ NoAddYet) =>
        /\ DOMAIN bf = 0..(CeilDiv(size, 8) - 1)
        /\ \A b \in DOMAIN bf : bf[b] = 0
        /\ DOMAIN cbf = 0..(size - 1)
        /\ \A s \in DOMAIN cbf : cbf[s] = 0
        /\ \A x \in Items :
              /\ ~BfQuery(bf, x)
              /\ ~CbfQuery(cbf, x)
              /\ CbfDelete(cbf, x) = [data |-> cbf, exc |-> "None"]
        /\ last.op = "query" => (last.bfRet = FALSE /\ last.cbfRet = FALSE)
        /\ last.op = "delete" => (cbf = prevCbf /\ last.exc = "None")

\* two deletes and then a query were made on a new filter of more than 8 slots
C24_Witness ==
    /\ ValidArgs(ctor)
    /\ NoAddYet
    /\ size > 8
    /\ Total(nDel, NumItems) = 2
    /\ last.op = "query"
    /\ last.cbfRet = FALSE

-----------------------------------------------------------------------------
(* a caller that records its calls, and a second pair of instances that is *)
(* given the recorded calls                                                *)

MaxCalls == 3

InitTwin ==
    /\ Constructed
    /\ DiceIdle
    /\ in_filter = <<>>
    /\ idx = 0
    /\ pc = "recording"

RecAdd(x) ==
    /\ pc = "recording"
    /\ Len(calls) < MaxCalls
    /\ calls' = Append(calls, [op |-> "add", item |-> x])
    /\ DoAdd(x)
    /\ UNCHANGED <<in_filter, idx, pc>>

RecQuery(x) ==
    /\ pc = "recording"
    /\ Len(calls) < MaxCalls
    /\ calls' = Append(calls, [op |-> "query", item |-> x])
    /\ DoQuery(x)
    /\ UNCHANGED <<in_filter, idx, pc>>

RecDelete(x) ==
    /\ pc = "recording"
    /\ Len(calls) < MaxCalls
    /\ calls' = Append(calls, [op |-> "delete", item |-> x])
    /\ DoDelete(x)
    /\ UNCHANGED <<in_filter, idx, pc>>

NextTwin == \E x \in Items : RecAdd(x) \/ RecQuery(x) \/ RecDelete(x)

SpecTwin == InitTwin /\ [][NextTwin]_vars

\* one call on a pair of instances: the storage after it and what it returned
CallOn(t, c) ==
    CASE c.op = "add" ->
            [bf |-> BfAdd(t.bf, c.item), cbf |-> CbfAdd(t.cbf, c.item).data,
             bfRet |-> "None", cbfRet |-> "None", exc |-> CbfAdd(t.cbf, c.item).exc]
      [] c.op = "query" ->
            [bf |-> t.bf, cbf |-> t.cbf, bfRet |-> BfQuery(t.bf, c.item),
             cbfRet |-> CbfQuery(t.cbf, c.item), exc |-> "None"]
      [] c.op = "delete" ->
            [bf |-> t.bf, cbf |-> CbfDelete(t.cbf, c.item).data,
             bfRet |-> "None", cbfRet |-> "None", exc |-> CbfDelete(t.cbf, c.item).exc]

\* a pair of instances built with the same arguments
NewTwin ==
    [bf |-> NewBitData(size), cbf |-> NewCounterData(size),
     bfRet |-> "None", cbfRet |-> "None", exc |-> "None"]

\* the calls cs made one after the other on the pair t
RECURSIVE Replay(_, _)
Replay(t, cs) ==
    IF cs = <<>> THEN t ELSE Replay(CallOn(t, Head(cs)), Tail(cs))

-----------------------------------------------------------------------------
(* BloomFilter and CountingBloomFilter side by side *)

\* C26: as long as no delete was called and no add was refused at a counter
\* of 255, slot s of the bit array is 1 exactly when counter s is nonzero, so
\* both filters give the same answer to every query.
C26_BitsMatchCounters ==
    (Total(nDel, NumItems) = 0 /\ ~raised) =>
        /\ \A s \in 0..(size - 1) : (BitAt(bf, s) = 1) = (cbf[s] # 0)
        /\ \A x \in Items : BfQuery(bf, x) = CbfQuery(cbf, x)
        /\ last.op = "query" => last.bfRet = last.cbfRet

\* after adds only, a query was answered True by both filters for an item
\* that was never added, and another item is found by neither
C26_Witness ==
    /\ Total(nDel, NumItems) = 0
    /\ ~raised
    /\ last.op = "query"
    /\ AddCalls(last.item) = 0
    /\ last.bfRet = TRUE
    /\ last.cbfRet = TRUE
    /\ \E x \in Items : ~BfQuery(bf, x) /\ ~CbfQuery(cbf, x)

-----------------------------------------------------------------------------
(* CountingBloomFilter: add and then delete *)

\* C27: in every state and for every item whose add raises no counter above
\* 255, add followed at once by delete of the same item returns normally and
\* gives back the counters of that state, also when several hash functions of
\* the item give the same slot.
C27_DeleteUndoesAdd ==
    \A x \in Items :
        CbfAdd(cbf, x).exc = "None" =>
            CbfDelete(CbfAdd(cbf, x).data, x) = [data |-> cbf, exc |-> "None"]

\* a delete has just undone the add of an item with two hash functions on one
\* slot, in a filter that holds other items
C27_Witness ==
    /\ last.op = "delete"
    /\ last.exc = "None"
    /\ CbfAdd(cbf, last.item) = [data |-> prevCbf, exc |-> "None"]
    /\ \E s \in DOMAIN cbf : Hits(last.item, s) >= 2
    /\ Sum(cbf) > 0
    /\ nAdd[last.item] >= 1

-----------------------------------------------------------------------------
(* the order of adds *)

\* the number of (add call, hash function) pairs on slot s, over the items 1..n
RECURSIVE AddedOn(_, _)
AddedOn(s, n) ==
    IF n = 0 THEN 0 ELSE AddCalls(n) * Hits(n, s) + AddedOn(s, n - 1)

\* both orders of add(x) and add(y) on the counters data go through
BothOrdersPass(data, x, y) ==
    /\ CbfAdd(data, x).exc = "None"
    /\ CbfAdd(CbfAdd(data, x).data, y).exc = "None"
    /\ CbfAdd(data, y).exc = "None"
    /\ CbfAdd(CbfAdd(data, y).data, x).exc = "None"

-----------------------------------------------------------------------------
(* BloomFilter: bits are never cleared *)

\* every set bit stays set and every item that is found stays found
BitsKept ==
    /\ \A k \in BitPositions(bf) : BitAt(bf, k) = 1 => BitAt(bf', k) = 1
    /\ \A x \in Items : BfQuery(bf, x) => BfQuery(bf', x)

\* C29: no call clears a bit of the BloomFilter, so along every sequence of
\* calls the set of set bits only grows, and an item for which query has
\* returned True is found in every later state.
C29_BitsOnlyGrow == [][BitsKept]_vars

\* after a delete, an add set a further bit while an item that was found
\* before is still found
C29_Witness ==
    /\ last.op = "add"
    /\ bf # prevBf
    /\ Total(nDel, NumItems) >= 1
    /\ \E k \in BitPositions(bf) : BitAt(prevBf, k) = 1
    /\ \E x \in Items : x # last.item /\ BfQuery(prevBf, x) /\ BfQuery(bf, x)

-----------------------------------------------------------------------------
(* CountingBloomFilter.add: all hash functions or none *)

\* C30: every add either increments the counter of each of the nhash hash
\* functions of the item or leaves the counters unchanged; no add ends,
\* normally or with an exception, with only the first few of them incremented.
C30_AddAllOrNothing ==
    last.op = "add" =>
        \/ cbf = prevCbf
        \/ \A s \in DOMAIN cbf : cbf[s] = prevCbf[s] + Hits(last.item, s)

====
